---- MODULE Spec2Model ----
(***************************************************************************)
(* Model of backend/main.py: the article enrichment pipeline               *)
(* (process_article_data), the result cache (article_cache,                *)
(* manage_cache_size), the request handler (process_article) and the       *)
(* background refresh job (update_article_cache).                          *)
(*                                                                         *)
(* The service runs on one asyncio event loop: a coroutine runs without    *)
(* interruption between two awaits, so every action below is the code      *)
(* between two awaits of one coroutine.                                    *)
(***************************************************************************)
EXTENDS Integers, Sequences, FiniteSets, TLC

VARIABLES article_cache, now, req, bg

vars == <<article_cache, now, req, bg>>

----------------------------------------------------------------------------
(* Bounds of the model *)

\* capacity of the cache (main.py:39 sets 100; scaled down)
CACHE_SIZE == 1

\* requests served in one behaviour, numbered in order of arrival
MaxReq == 2

\* background refresh jobs scheduled in one behaviour
MaxJobs == 2

\* seconds the clock advances beyond one TTL
MaxSecs == 2

\* versions of the content a link may serve
MaxVer == 1

\* entities the parser finds in a text given to the entity route
MaxEnts == 3

\* items in the cache when the listing route is called (the capacity in the
\* source is 100)
MaxListed == 3

\* items in the store a single put is applied to; more than CACHE_SIZE, so that
\* manage_cache_size is also applied to a dict that is over capacity
MaxStored == 3

\* the age above which a cached item is refreshed, in seconds
TTL == 3600

\* one link more than the cache holds, so that a put can evict
Links == 1..(CACHE_SIZE + 1)
Reqs == 1..MaxReq
Vers == 1..MaxVer

\* the readings of time.time() the model covers
Times == {0} \cup {TTL + a : a \in 0..MaxSecs}

----------------------------------------------------------------------------
(* Pure helpers *)

\* variant of get_cache_key: a digest that two links share
get_cache_key_collides(url) == <<"md5", 0>>

\* hashlib.md5(url.encode()).hexdigest(): deterministic, one digest per link
get_cache_key(url) == <<"md5", url>>

\* the sequences over S of length at most n
RECURSIVE SeqsUpTo(_, _)
SeqsUpTo(S, n) ==
    IF n = 0 THEN {<<>>}
    ELSE LET shorter == SeqsUpTo(S, n - 1)
         IN shorter \cup {Append(q, x) : q \in shorter, x \in S}

Analyzers == {"entities", "social_accounts", "social_shares", "sentiment",
              "spacy_html", "keywords", "accounts"}

\* the failure sets the cache-level specification draws from
FailChoices == {{}, {"sentiment"}}

LowerChar(ch) == IF ch = "A" THEN "a" ELSE IF ch = "L" THEN "l" ELSE ch

Lower(text) == [i \in DOMAIN text |-> LowerChar(text[i])]

\* EntityFilterOptions(): exclude_types = EXCLUDED_ENTITY_TYPES, min_length = 1
EXCLUDED_ENTITY_TYPES == {"TIME", "DATE", "LANGUAGE", "PERCENT", "MONEY",
                          "QUANTITY", "ORDINAL", "CARDINAL"}

EntityFilterOptions == [exclude_types |-> EXCLUDED_ENTITY_TYPES, min_length |-> 1]

\* the options get_entity_filter_options builds from the query
FilterOptions ==
    [exclude_types : {{}, {"DATE"}, EXCLUDED_ENTITY_TYPES}, min_length : 0..3]

RECURSIVE Dedup(_, _)
Dedup(entities, seen) ==
    IF entities = <<>> THEN <<>>
    ELSE LET entity == Head(entities)
             key == <<entity.type, Lower(entity.text)>>
         IN IF key \in seen
            THEN Dedup(Tail(entities), seen)
            ELSE <<entity>> \o Dedup(Tail(entities), seen \cup {key})

\* variant of Keep: a text of exactly min_length characters is dropped
KeepLonger(ent, options) ==
    ent.type \notin options.exclude_types /\ Len(ent.text) > options.min_length

Keep(ent, options) ==
    ent.type \notin options.exclude_types /\ Len(ent.text) >= options.min_length

filter_entities(ents, options) ==
    Dedup(SelectSeq(ents, LAMBDA ent : Keep(ent, options)), {})

\* doc.ents of the parsed text of a fetched article
DocEnts(doc) ==
    << [type |-> "DATE", text |-> <<"2", "0">>],
       [type |-> "PERSON", text |-> <<"A", "l">>],
       [type |-> "PERSON", text |-> <<"a", "l">>],
       [type |-> "ORG", text |-> IF doc.ver = 1 THEN <<"a">> ELSE <<"l">>] >>

\* len(article.text) of a fetched article
TextLen(doc) ==
    CASE doc.link = 1 -> 11
      [] doc.link = 2 -> 5
      [] doc.link = 3 -> 0
      [] doc.link = 4 -> 9
      [] OTHER -> 10

\* article.text, a sequence of characters
Text(doc) == [i \in 1..TextLen(doc) |-> "x"]

\* variant of extract_keywords: the extractor is given every text
extract_keywords_always(text, ver) ==
    [data |-> IF Len(text) < 10 THEN <<>> ELSE << [keyword |-> "kw", score |-> ver] >>,
     extractor_called |-> TRUE]

\* extract_keywords: the list returned and whether the YAKE extractor was invoked;
\* ver stands for the content the extractor scores. An extractor that raises
\* gives the same empty list as a keywords task in the failed set.
extract_keywords(text, ver) ==
    IF text = <<>> \/ Len(text) < 10
    THEN [data |-> <<>>, extractor_called |-> FALSE]
    ELSE [data |-> << [keyword |-> "kw", score |-> ver] >>, extractor_called |-> TRUE]

\* what each dispatched task returns when it does not raise
Payload(a, doc) ==
    CASE a = "entities" -> filter_entities(DocEnts(doc), EntityFilterOptions)
      [] a = "sentiment" -> [neg |-> 0, neu |-> 1, pos |-> doc.ver, compound |-> doc.ver]
      [] a = "keywords" -> extract_keywords(Text(doc), doc.ver).data
      [] OTHER -> [platform |-> <<a, doc.link, doc.ver>>]

\* the value substituted for a task whose result is an exception
Default(a) ==
    CASE a = "entities" -> <<>>
      [] a = "sentiment" -> [compound |-> 0, pos |-> 0, neg |-> 0, neu |-> 0]
      [] a = "spacy_html" -> ""
      [] a = "keywords" -> <<>>
      [] OTHER -> <<>>

\* variant of Result: one failed task makes every field fall back to its default
ResultAnyFailed(a, doc, failed) == IF failed # {} THEN Default(a) ELSE Payload(a, doc)

Result(a, doc, failed) == IF a \in failed THEN Default(a) ELSE Payload(a, doc)

\* SentimentResponse(**scores): the aliases pos, neg, neu name the fields
SentimentResponse(scores) ==
    [compound |-> scores.compound, positive |-> scores.pos,
     negative |-> scores.neg, neutral |-> scores.neu]

\* article.publish_date: absent, or a datetime that carries a UTC offset. A
\* datetime is its wall-clock reading in seconds and, when aware, its offset.
PublishDate(doc) ==
    CASE doc.link = 1 -> [kind |-> "aware", wall |-> 3600, utcoffset |-> 0]
      [] doc.link = 2 -> [kind |-> "aware", wall |-> 7200, utcoffset |-> 7200]
      [] OTHER -> [kind |-> "none"]

\* the ArticleResponse built at the end of process_article_data
ArticleResponse(doc, failed, processing_time) ==
    [link |-> doc.link,
     ver |-> doc.ver,
     date |-> PublishDate(doc),
     keywords |-> Result("keywords", doc, failed),
     entities |-> Result("entities", doc, failed),
     social_accounts |-> Result("social_accounts", doc, failed),
     sentiment |-> SentimentResponse(Result("sentiment", doc, failed)),
     accounts |-> Result("accounts", doc, failed),
     social_shares |-> Result("social_shares", doc, failed),
     processing_time |-> processing_time]

----------------------------------------------------------------------------
(* The cache: a dict, modelled as the sequence of its items in insertion  *)
(* order.                                                                  *)

HasKey(cache, key) == \E i \in DOMAIN cache : cache[i].key = key

IndexOf(cache, key) == CHOOSE i \in DOMAIN cache : cache[i].key = key

Lookup(cache, key) == cache[IndexOf(cache, key)]

\* variant of Put: an item already stored under the key is kept
PutKeepsOld(cache, key, data, timestamp) ==
    IF HasKey(cache, key)
    THEN cache
    ELSE Append(cache, [key |-> key, data |-> data, timestamp |-> timestamp])

\* article_cache[cache_key] = {"data": result, "timestamp": time.time()}
Put(cache, key, data, timestamp) ==
    LET item == [key |-> key, data |-> data, timestamp |-> timestamp]
    IN IF HasKey(cache, key)
       THEN [cache EXCEPT ![IndexOf(cache, key)] = item]
       ELSE Append(cache, item)

\* position of item i in sorted(keys, key=timestamp): the sort is stable
Rank(cache, i) ==
    Cardinality({j \in DOMAIN cache :
        \/ cache[j].timestamp < cache[i].timestamp
        \/ (cache[j].timestamp = cache[i].timestamp /\ j < i)})

RECURSIVE Without(_, _, _)
Without(cache, removed, i) ==
    IF i > Len(cache) THEN <<>>
    ELSE (IF i \in removed THEN <<>> ELSE <<cache[i]>>) \o Without(cache, removed, i + 1)

\* variant of manage_cache_size: the size test is off by one
manage_cache_size_off(cache) ==
    IF Len(cache) > CACHE_SIZE + 1
    THEN LET keys_to_remove ==
                 {i \in DOMAIN cache : Rank(cache, i) < Len(cache) - CACHE_SIZE}
         IN Without(cache, keys_to_remove, 1)
    ELSE cache

\* variant of manage_cache_size: one item is removed however many are in excess
manage_cache_size_one(cache) ==
    IF Len(cache) > CACHE_SIZE
    THEN LET keys_to_remove == {i \in DOMAIN cache : Rank(cache, i) < 1}
         IN Without(cache, keys_to_remove, 1)
    ELSE cache

manage_cache_size(cache) ==
    IF Len(cache) > CACHE_SIZE
    THEN LET keys_to_remove ==
                 {i \in DOMAIN cache : Rank(cache, i) < Len(cache) - CACHE_SIZE}
         IN Without(cache, keys_to_remove, 1)
    ELSE cache

\* the cache write of process_article and update_article_cache
Store(cache, key, data, timestamp) == manage_cache_size(Put(cache, key, data, timestamp))

\* variant of IsStale: an item exactly one TTL old counts as stale
IsStaleGe(item, t) == t - item.timestamp >= TTL

\* variant of IsStale: an item counts as stale only in the second after its TTL
IsStaleWindow(item, t) == t - item.timestamp = TTL + 1

\* time.time() - cached_item.get("timestamp", 0) > 3600
IsStale(item, t) == t - item.timestamp > TTL

----------------------------------------------------------------------------
(* State *)

NoDoc == [link |-> 0, ver |-> 0]

NoResp == [status |-> 0]

\* results[a]: what the task of analyzer a has produced so far: "none" while it
\* has not ended, "value" once it returned, "exception" once it raised
NoResults == [a \in Analyzers |-> "none"]

\* extractor_called: whether the run of the request invoked the YAKE extractor;
\* filter_options: the options of the request, the defaults when the query names
\* none
IdleReq == [pc |-> "idle", link |-> 0, cache |-> FALSE, start_time |-> 0,
            doc |-> NoDoc, resp |-> NoResp, results |-> NoResults,
            extractor_called |-> FALSE, filter_options |-> EntityFilterOptions]

Job(url, key) == [url |-> url, cache_key |-> key, pc |-> "pending",
                  start_time |-> 0, doc |-> NoDoc]

Init ==
    /\ article_cache = <<>>
    /\ now = 0
    /\ req = [r \in Reqs |-> IdleReq]
    /\ bg = <<>>

----------------------------------------------------------------------------
(* process_article *)

\* variant of CacheHit: the request's cache flag is not consulted
CacheHitIgnoresFlag(cache, cache_key) == HasKey(article_cache, cache_key)

\* if article.cache and cache_key in article_cache
CacheHit(cache, cache_key) == cache /\ HasKey(article_cache, cache_key)

\* the dependency of the route, resolved before the handler runs: the options of
\* the query replace the defaults
get_entity_filter_options(r, options) ==
    /\ req[r].pc = "idle"
    /\ \A q \in Reqs : q < r => req[q].pc # "idle"
    /\ req[r].filter_options = EntityFilterOptions
    /\ options # EntityFilterOptions
    /\ req' = [req EXCEPT ![r].filter_options = options]
    /\ UNCHANGED <<article_cache, now, bg>>

\* variant of Arrive: a hit stamps the item it reads with the time of the read
ArriveTouches(r, url, cache) ==
    /\ req[r].pc = "idle"
    /\ \A q \in Reqs : q < r => req[q].pc # "idle"
    /\ LET cache_key == get_cache_key(url)
       IN IF CacheHit(cache, cache_key)
          THEN LET cached_item == Lookup(article_cache, cache_key)
               IN /\ IsStale(cached_item, now) => Len(bg) < MaxJobs
                  /\ bg' = IF IsStale(cached_item, now)
                           THEN Append(bg, Job(url, cache_key))
                           ELSE bg
                  /\ req' = [req EXCEPT ![r] =
                               [req[r] EXCEPT !.pc = "done", !.link = url, !.cache = cache,
                                   !.resp = [status |-> 200, data |-> cached_item.data,
                                             cached |-> TRUE]]]
                  /\ article_cache' = [article_cache EXCEPT
                                          ![IndexOf(article_cache, cache_key)].timestamp = now]
          ELSE /\ req' = [req EXCEPT ![r] =
                            [req[r] EXCEPT !.pc = "fetching", !.link = url,
                                !.cache = cache, !.start_time = now]]
               /\ bg' = bg
               /\ article_cache' = article_cache
    /\ now' = now

\* variant of Arrive: a stale hit schedules a refresh only when no refresh of the
\* same key is pending or running
ArriveDedup(r, url, cache) ==
    /\ req[r].pc = "idle"
    /\ \A q \in Reqs : q < r => req[q].pc # "idle"
    /\ LET cache_key == get_cache_key(url)
       IN IF CacheHit(cache, cache_key)
          THEN LET cached_item == Lookup(article_cache, cache_key)
                   scheduled == \E i \in DOMAIN bg :
                                   /\ bg[i].cache_key = cache_key
                                   /\ bg[i].pc \in {"pending", "fetching", "analyzing"}
               IN /\ IsStale(cached_item, now) => Len(bg) < MaxJobs
                  /\ bg' = IF IsStale(cached_item, now) /\ ~scheduled
                           THEN Append(bg, Job(url, cache_key))
                           ELSE bg
                  /\ req' = [req EXCEPT ![r] =
                               [req[r] EXCEPT !.pc = "done", !.link = url, !.cache = cache,
                                   !.resp = [status |-> 200, data |-> cached_item.data,
                                             cached |-> TRUE]]]
          ELSE /\ req' = [req EXCEPT ![r] =
                            [req[r] EXCEPT !.pc = "fetching", !.link = url,
                                !.cache = cache, !.start_time = now]]
               /\ bg' = bg
    /\ UNCHANGED <<article_cache, now>>

\* the handler up to its first await: the cache lookup, and the hit path
Arrive(r, url, cache) ==
    /\ req[r].pc = "idle"
    /\ \A q \in Reqs : q < r => req[q].pc # "idle"
    /\ LET cache_key == get_cache_key(url)
       IN IF CacheHit(cache, cache_key)
          THEN LET cached_item == Lookup(article_cache, cache_key)
               IN /\ IsStale(cached_item, now) => Len(bg) < MaxJobs
                  /\ bg' = IF IsStale(cached_item, now)
                           THEN Append(bg, Job(url, cache_key))
                           ELSE bg
                  /\ req' = [req EXCEPT ![r] =
                               [req[r] EXCEPT !.pc = "done", !.link = url, !.cache = cache,
                                   !.resp = [status |-> 200, data |-> cached_item.data,
                                             cached |-> TRUE]]]
          ELSE /\ req' = [req EXCEPT ![r] =
                            [req[r] EXCEPT !.pc = "fetching", !.link = url,
                                !.cache = cache, !.start_time = now]]
               /\ bg' = bg
    /\ UNCHANGED <<article_cache, now>>

\* fetch_article raises: HTTPException 422, re-raised by process_article
FetchFailed(r) ==
    /\ req[r].pc = "fetching"
    /\ req' = [req EXCEPT ![r].pc = "failed", ![r].start_time = 0,
                          ![r].resp = [status |-> 422]]
    /\ UNCHANGED <<article_cache, now, bg>>

\* fetch_article returns, nlp(text) parses it and the seven tasks are created
Fetched(r, ver) ==
    /\ req[r].pc = "fetching"
    /\ req' = [req EXCEPT ![r].pc = "analyzing",
                          ![r].doc = [link |-> req[r].link, ver |-> ver]]
    /\ UNCHANGED <<article_cache, now, bg>>

\* fetch_article returns and nlp(text) raises: the handler answers 500
TokenizerFailed(r) ==
    /\ req[r].pc = "fetching"
    /\ req' = [req EXCEPT ![r].pc = "failed", ![r].start_time = 0, ![r].doc = NoDoc,
                          ![r].resp = [status |-> 500]]
    /\ UNCHANGED <<article_cache, now, bg>>

\* gather returns with the tasks of `failed` having raised; the record is built,
\* stored and returned
Gathered(r, failed) ==
    /\ req[r].pc = "analyzing"
    /\ LET result == ArticleResponse(req[r].doc, failed, now - req[r].start_time)
       IN /\ article_cache' = Store(article_cache, get_cache_key(req[r].link), result, now)
          /\ req' = [req EXCEPT ![r].pc = "done", ![r].start_time = 0, ![r].doc = NoDoc,
                                ![r].extractor_called =
                                    extract_keywords(Text(req[r].doc),
                                                     req[r].doc.ver).extractor_called,
                                ![r].resp = [status |-> 200, data |-> result,
                                             cached |-> FALSE]]
    /\ UNCHANGED <<now, bg>>

\* variant of MarkdownFailed: the cache is written before the record is built
MarkdownFailedAfterStore(r) ==
    /\ req[r].pc = "analyzing"
    /\ article_cache' = Store(article_cache, get_cache_key(req[r].link), NoDoc, now)
    /\ req' = [req EXCEPT ![r].pc = "failed", ![r].start_time = 0, ![r].doc = NoDoc,
                          ![r].resp = [status |-> 500]]
    /\ UNCHANGED <<now, bg>>

\* gather returns and md(article_html) raises while the record is built
MarkdownFailed(r) ==
    /\ req[r].pc = "analyzing"
    /\ req' = [req EXCEPT ![r].pc = "failed", ![r].start_time = 0, ![r].doc = NoDoc,
                          ![r].resp = [status |-> 500]]
    /\ UNCHANGED <<article_cache, now, bg>>

----------------------------------------------------------------------------
(* update_article_cache *)

JobStart(i) ==
    /\ i \in DOMAIN bg
    /\ bg[i].pc = "pending"
    /\ bg' = [bg EXCEPT ![i].pc = "fetching", ![i].start_time = now]
    /\ UNCHANGED <<article_cache, now, req>>

\* variant of JobFetchFailed: a failed refresh drops the item it could not renew
JobFetchFailedDrops(i) ==
    /\ i \in DOMAIN bg
    /\ bg[i].pc = "fetching"
    /\ bg' = [bg EXCEPT ![i].pc = "failed", ![i].start_time = 0, ![i].doc = NoDoc]
    /\ article_cache' = SelectSeq(article_cache, LAMBDA item : item.key # bg[i].cache_key)
    /\ UNCHANGED <<now, req>>

\* process_article_data raises in the job: logged, the job ends
JobFetchFailed(i) ==
    /\ i \in DOMAIN bg
    /\ bg[i].pc = "fetching"
    /\ bg' = [bg EXCEPT ![i].pc = "failed", ![i].start_time = 0, ![i].doc = NoDoc]
    /\ UNCHANGED <<article_cache, now, req>>

JobFetched(i, ver) ==
    /\ i \in DOMAIN bg
    /\ bg[i].pc = "fetching"
    /\ bg' = [bg EXCEPT ![i].pc = "analyzing", ![i].doc = [link |-> bg[i].url, ver |-> ver]]
    /\ UNCHANGED <<article_cache, now, req>>

JobTokenizerFailed(i) ==
    /\ i \in DOMAIN bg
    /\ bg[i].pc = "fetching"
    /\ bg' = [bg EXCEPT ![i].pc = "failed", ![i].start_time = 0, ![i].doc = NoDoc]
    /\ UNCHANGED <<article_cache, now, req>>

\* variant of JobGathered: the item is stamped with the time the job began
JobGatheredStartStamp(i, failed) ==
    /\ i \in DOMAIN bg
    /\ bg[i].pc = "analyzing"
    /\ LET result == ArticleResponse(bg[i].doc, failed, now - bg[i].start_time)
       IN article_cache' = Store(article_cache, bg[i].cache_key, result, bg[i].start_time)
    /\ bg' = [bg EXCEPT ![i].pc = "done", ![i].start_time = 0, ![i].doc = NoDoc]
    /\ UNCHANGED <<now, req>>

\* the job's pipeline run returns its record, which is stored under the job's key
JobGathered(i, failed) ==
    /\ i \in DOMAIN bg
    /\ bg[i].pc = "analyzing"
    /\ LET result == ArticleResponse(bg[i].doc, failed, now - bg[i].start_time)
       IN article_cache' = Store(article_cache, bg[i].cache_key, result, now)
    /\ bg' = [bg EXCEPT ![i].pc = "done", ![i].start_time = 0, ![i].doc = NoDoc]
    /\ UNCHANGED <<now, req>>

JobMarkdownFailed(i) ==
    /\ i \in DOMAIN bg
    /\ bg[i].pc = "analyzing"
    /\ bg' = [bg EXCEPT ![i].pc = "failed", ![i].start_time = 0, ![i].doc = NoDoc]
    /\ UNCHANGED <<article_cache, now, req>>

----------------------------------------------------------------------------
(* The clock read by time.time() *)

\* variant of Tick: entries older than TTL are swept out as the clock advances
TickSweeps(d) ==
    /\ now + d \in Times
    /\ now' = now + d
    /\ article_cache' = SelectSeq(article_cache, LAMBDA item : ~IsStale(item, now + d))
    /\ UNCHANGED <<req, bg>>

Tick(d) ==
    /\ now + d \in Times
    /\ now' = now + d
    /\ UNCHANGED <<article_cache, req, bg>>

\* the system clock is set back (time.time() is not monotonic)
ClockSetBack(t) ==
    /\ t < now
    /\ now' = t
    /\ UNCHANGED <<article_cache, req, bg>>

----------------------------------------------------------------------------
(* lifespan *)

ClosedReq == [IdleReq EXCEPT !.pc = "closed"]

\* the application shuts down: the handlers and jobs still running are cancelled
\* and the cache is cleared
Shutdown ==
    /\ \E r \in Reqs : req[r].pc # "closed"
    /\ article_cache' = <<>>
    /\ req' = [r \in Reqs |-> ClosedReq]
    /\ bg' = <<>>
    /\ UNCHANGED now

----------------------------------------------------------------------------

Next ==
    \/ \E r \in Reqs, url \in Links, cache \in BOOLEAN : Arrive(r, url, cache)
    \/ \E r \in Reqs : FetchFailed(r)
    \/ \E r \in Reqs, ver \in Vers : Fetched(r, ver)
    \/ \E r \in Reqs : TokenizerFailed(r)
    \/ \E r \in Reqs, failed \in FailChoices : Gathered(r, failed)
    \/ \E r \in Reqs : MarkdownFailed(r)
    \/ \E i \in 1..MaxJobs : JobStart(i)
    \/ \E i \in 1..MaxJobs : JobFetchFailed(i)
    \/ \E i \in 1..MaxJobs, ver \in Vers : JobFetched(i, ver)
    \/ \E i \in 1..MaxJobs : JobTokenizerFailed(i)
    \/ \E i \in 1..MaxJobs, failed \in FailChoices : JobGathered(i, failed)
    \/ \E i \in 1..MaxJobs : JobMarkdownFailed(i)
    \/ \E d \in {1, TTL} : Tick(d)
    \/ \E t \in Times : ClockSetBack(t)

Spec == Init /\ [][Next]_vars

\* one enrichment run of one request, with every set of failing tasks
NextEnrich ==
    \/ \E url \in Links, cache \in BOOLEAN : Arrive(1, url, cache)
    \/ FetchFailed(1)
    \/ \E ver \in Vers : Fetched(1, ver)
    \/ TokenizerFailed(1)
    \/ \E failed \in SUBSET Analyzers : Gathered(1, failed)
    \/ MarkdownFailed(1)
    \/ \E d \in {1, TTL} : Tick(d)
    \/ \E t \in Times : ClockSetBack(t)

SpecEnrich == Init /\ [][NextEnrich]_vars

\* the service some time after an earlier request has stored the record of link 1
InitRefresh ==
    /\ article_cache = <<[key |-> get_cache_key(1),
                          data |-> ArticleResponse([link |-> 1, ver |-> 1], {}, 0),
                          timestamp |-> 0]>>
    /\ now = 0
    /\ req = [r \in Reqs |-> IdleReq]
    /\ bg = <<>>

SpecRefresh == InitRefresh /\ [][Next]_vars

\* requests that name their entity filter options
NextFilter ==
    \/ \E r \in Reqs, options \in FilterOptions : get_entity_filter_options(r, options)
    \/ \E r \in Reqs, url \in Links, cache \in BOOLEAN : Arrive(r, url, cache)
    \/ \E r \in Reqs, ver \in Vers : Fetched(r, ver)
    \/ \E r \in Reqs, failed \in FailChoices : Gathered(r, failed)

SpecFilter == Init /\ [][NextFilter]_vars

\* the service from its start to its shutdown
NextLifespan == Next \/ Shutdown

SpecLifespan == Init /\ [][NextLifespan]_vars

----------------------------------------------------------------------------
(* One enrichment run with its seven tasks ending one at a time *)

\* the task of analyzer a ends, returning a value or raising
TaskEnds(r, a, outcome) ==
    /\ req[r].pc = "analyzing"
    /\ req[r].results[a] = "none"
    /\ req' = [req EXCEPT ![r].results[a] = outcome]
    /\ UNCHANGED <<article_cache, now, bg>>

\* variant of GatherDone: gather without return_exceptions, which ends with the
\* first task that raises
GatherDoneFirstException(results) ==
    \/ \E a \in Analyzers : results[a] = "exception"
    \/ \A a \in Analyzers : results[a] # "none"

\* await asyncio.gather(*tasks, return_exceptions=True) resumes the coroutine
\* once every task has ended
GatherDone(results) == \A a \in Analyzers : results[a] # "none"

Raised(results) == {a \in Analyzers : results[a] = "exception"}

GatherReturns(r) ==
    /\ GatherDone(req[r].results)
    /\ Gathered(r, Raised(req[r].results))

GatherReturnsMarkdownFails(r) ==
    /\ GatherDone(req[r].results)
    /\ MarkdownFailed(r)

\* the links the run is started for: their texts have 11, 5, 0, 9 and 10 characters
Pages == 1..5

NextGather ==
    \/ \E url \in Pages, cache \in BOOLEAN : Arrive(1, url, cache)
    \/ FetchFailed(1)
    \/ \E ver \in Vers : Fetched(1, ver)
    \/ \E a \in Analyzers, outcome \in {"value", "exception"} : TaskEnds(1, a, outcome)
    \/ GatherReturns(1)
    \/ GatherReturnsMarkdownFails(1)

SpecGather == Init /\ [][NextGather]_vars

----------------------------------------------------------------------------
(* get_cached_articles: the route that lists the cache *)

\* article_date.replace(tzinfo=None): the wall-clock reading is kept, the offset
\* is dropped
replace_tzinfo_none(d) == [kind |-> "naive", wall |-> d.wall]

\* datetime.fromtimestamp(timestamp), the server's zone being UTC
fromtimestamp(timestamp) == [kind |-> "naive", wall |-> timestamp]

creation_date(cached_item) ==
    LET article_date == cached_item.data.date
    IN IF article_date.kind # "none"
       THEN IF article_date.kind = "aware"
            THEN replace_tzinfo_none(article_date)
            ELSE article_date
       ELSE fromtimestamp(cached_item.timestamp)

\* position of item i after cached_articles.sort(key=creation_date, reverse=True):
\* the sort is stable
ListRank(cache, i) ==
    Cardinality({j \in DOMAIN cache :
        \/ creation_date(cache[j]).wall > creation_date(cache[i]).wall
        \/ (creation_date(cache[j]).wall = creation_date(cache[i]).wall /\ j < i)})

SortedByCreationDate(cache) ==
    [k \in 1..Len(cache) |-> cache[CHOOSE i \in DOMAIN cache : ListRank(cache, i) = k - 1]]

CachedArticleResponse(item) ==
    [cache_key |-> item.key, cached_at |-> fromtimestamp(item.timestamp),
     article |-> item.data]

\* cached_articles[offset:offset + limit]
Paginate(cached_articles, limit, offset) ==
    SubSeq(cached_articles, offset + 1,
           IF offset + limit < Len(cached_articles)
           THEN offset + limit ELSE Len(cached_articles))

get_cached_articles(r, limit, offset) ==
    /\ req[r].pc = "idle"
    /\ LET cached_articles == SortedByCreationDate(article_cache)
           paginated_articles == Paginate(cached_articles, limit, offset)
       IN req' = [req EXCEPT ![r] =
                     [pc |-> "done", limit |-> limit, offset |-> offset,
                      resp |-> [status |-> 200,
                                total_articles |-> Len(cached_articles),
                                articles |-> [k \in DOMAIN paginated_articles |->
                                     CachedArticleResponse(paginated_articles[k])]]]]
    /\ UNCHANGED <<article_cache, now, bg>>

\* the items the cache may hold when the listing is called: one per link, stored
\* at any reading of the clock
ListedItems ==
    {[key |-> get_cache_key(link),
      data |-> ArticleResponse([link |-> link, ver |-> 1], {}, 0),
      timestamp |-> t] : link \in 1..MaxListed, t \in Times}

InitList ==
    /\ article_cache \in {cache \in SeqsUpTo(ListedItems, MaxListed) :
                             \A i, j \in DOMAIN cache : i # j => cache[i].key # cache[j].key}
    /\ now = 0
    /\ req = [r \in Reqs |-> IdleReq]
    /\ bg = <<>>

NextList == \E limit \in 1..MaxListed, offset \in 0..MaxListed : get_cached_articles(1, limit, offset)

SpecList == InitList /\ [][NextList]_vars

----------------------------------------------------------------------------
(* One cache write applied to a dict of any size *)

\* the readings of time.time() of the stored items and of the write
StoreTimes == {0, 10, 20}

StoredItems ==
    {[key |-> get_cache_key(link),
      data |-> ArticleResponse([link |-> link, ver |-> 1], {}, 0),
      timestamp |-> t] : link \in 1..MaxStored, t \in StoreTimes}

InitStore ==
    /\ article_cache \in {cache \in SeqsUpTo(StoredItems, MaxStored) :
                             \A i, j \in DOMAIN cache : i # j => cache[i].key # cache[j].key}
    /\ now \in StoreTimes
    /\ req = [r \in Reqs |-> IdleReq]
    /\ bg = <<>>

\* article_cache[cache_key] = {"data": result, "timestamp": time.time()} followed
\* by manage_cache_size(); the request keeps the dict it found and what it wrote
CacheWrite(r, url, ver) ==
    /\ req[r].pc = "idle"
    /\ LET result == ArticleResponse([link |-> url, ver |-> ver], {}, 0)
       IN /\ article_cache' = Store(article_cache, get_cache_key(url), result, now)
          /\ req' = [req EXCEPT ![r] =
                        [pc |-> "done", link |-> url, before |-> article_cache,
                         written |-> [key |-> get_cache_key(url), data |-> result,
                                      timestamp |-> now]]]
    /\ UNCHANGED <<now, bg>>

NextStore == \E url \in 1..(MaxStored + 1), ver \in 1..2 : CacheWrite(1, url, ver)

SpecStore == InitStore /\ [][NextStore]_vars

----------------------------------------------------------------------------
(* extract_entities: the route that applies filter_entities with the options of *)
(* the request                                                                  *)

\* the entities nlp(text) may find: a type and a text, the text a sequence of
\* characters
RawEntities ==
    { [type |-> "DATE", text |-> <<"2", "0", "2", "3">>],
      [type |-> "PERSON", text |-> <<"A", "l">>],
      [type |-> "PERSON", text |-> <<"a", "l">>],
      [type |-> "PERSON", text |-> <<"A", "L">>],
      [type |-> "PERSON", text |-> <<"A">>],
      [type |-> "ORG", text |-> <<"A", "l">>] }

\* the handler parses the text, filters the entities found and returns them
extract_entities(r, ents, filter_options) ==
    /\ req[r].pc = "idle"
    /\ req' = [req EXCEPT ![r] =
                  [pc |-> "done", ents |-> ents, filter_options |-> filter_options,
                   resp |-> [status |-> 200, data |-> filter_entities(ents, filter_options)]]]
    /\ UNCHANGED <<article_cache, now, bg>>

NextEntities ==
    \E ents \in SeqsUpTo(RawEntities, MaxEnts), filter_options \in FilterOptions :
        extract_entities(1, ents, filter_options)

SpecEntities == Init /\ [][NextEntities]_vars

----------------------------------------------------------------------------
(* Properties *)

Key(r) == get_cache_key(req[r].link)

InFlight == {"fetching", "analyzing"}

\* request r enters the handler in this step
ArriveStep(r) == req[r].pc = "idle" /\ req'[r].pc # "idle"

\* request r enters the handler with the cache flag set and finds its key stored
HitStep(r) ==
    /\ ArriveStep(r)
    /\ req'[r].cache
    /\ HasKey(article_cache, get_cache_key(req'[r].link))

\* request r finishes the miss path in this step
MissDone(r) == req[r].pc = "analyzing" /\ req'[r].pc = "done"

\* the item request r writes when it finishes the miss path
OwnItem(r) == [key |-> Key(r), data |-> req'[r].resp.data, timestamp |-> now]

\* C1: in every state another request or job can observe, article_cache holds at
\* most CACHE_SIZE items
C1_SizeBounded == Len(article_cache) <= CACHE_SIZE

\* a full cache from which a put has evicted an item
C1_Witness ==
    /\ Len(article_cache) = CACHE_SIZE
    /\ \E r \in Reqs : /\ req[r].pc = "done"
                       /\ ~req[r].resp.cached
                       /\ ~HasKey(article_cache, Key(r))

\* every put so far was a successful miss-path put, and their keys differ pairwise
DistinctPuts ==
    /\ bg = <<>>
    /\ \A q \in Reqs : req[q].pc = "done" => ~req[q].resp.cached
    /\ \A p, q \in Reqs :
          (p # q /\ req[p].pc = "done" /\ req[q].pc = "done") => req[p].link # req[q].link

LastN(s, n) == IF Len(s) <= n THEN s ELSE SubSeq(s, Len(s) - n + 1, Len(s))

\* C2: after a sequence of successful puts with pairwise distinct keys the cache
\* holds the CACHE_SIZE keys stored most recently (exactly CACHE_SIZE of them once
\* more than CACHE_SIZE were put). The items of the cache are kept in the order
\* they were stored, so each put must leave the last CACHE_SIZE items of the
\* previous cache followed by the new item.
C2_MostRecentRetained ==
    [][\A r \in Reqs :
          (MissDone(r) /\ DistinctPuts')
             => article_cache' = LastN(Append(article_cache, OwnItem(r)), CACHE_SIZE)]_vars

\* the default the record documents for the field an analyzer feeds
DocumentedDefault(a) ==
    CASE a = "sentiment" -> [compound |-> 0, positive |-> 0, negative |-> 0, neutral |-> 0]
      [] a = "spacy_html" -> ""
      [] OTHER -> <<>>

\* the record of the same run had no task failed
Baseline(r) == ArticleResponse(req[r].doc, {}, now - req[r].start_time)

C4_OnlyFetchFailureSurfaces ==
    \A r \in Reqs : req[r].pc = "failed" => req[r].resp.status = 422

\* C5: a request with the cache flag set that finds its key stored is answered at
\* once with the stored record and cached = TRUE; it schedules exactly one refresh
\* job, for its own key, when the item is older than TTL, and none otherwise
C5_StaleServedOneRefresh ==
    [][\A r \in Reqs :
          HitStep(r)
             => LET key == get_cache_key(req'[r].link)
                    item == Lookup(article_cache, key)
                IN /\ req'[r].pc = "done"
                   /\ req'[r].resp = [status |-> 200, data |-> item.data, cached |-> TRUE]
                   /\ IF now - item.timestamp > TTL
                      THEN /\ Len(bg') = Len(bg) + 1
                           /\ SubSeq(bg', 1, Len(bg)) = bg
                           /\ bg'[Len(bg')].cache_key = key
                           /\ bg'[Len(bg')].url = req'[r].link
                           /\ bg'[Len(bg')].pc = "pending"
                      ELSE bg' = bg]_vars

\* a stale item served from the cache with its refresh job scheduled and not begun
C5_Witness ==
    \E r \in Reqs :
        /\ req[r].pc = "done"
        /\ req[r].resp.cached
        /\ HasKey(article_cache, Key(r))
        /\ now - Lookup(article_cache, Key(r)).timestamp > TTL
        /\ req[r].resp.data = Lookup(article_cache, Key(r)).data
        /\ Len(bg) = 1
        /\ bg[1].cache_key = Key(r)
        /\ bg[1].pc = "pending"

\* C6: the first call leaves under its key the record it returned, and a second
\* call with the cache flag set that finds the item within its TTL returns that
\* same record, a record of the link it asked for, without starting a pipeline
\* run of its own or a refresh
C6_SecondCallServedFromCache ==
    [][\A r \in Reqs :
          /\ (MissDone(r) /\ HasKey(article_cache', Key(r)))
                => Lookup(article_cache', Key(r)).data = req'[r].resp.data
          /\ (HitStep(r) /\
              now - Lookup(article_cache, get_cache_key(req'[r].link)).timestamp <= TTL)
                => /\ req'[r].pc = "done"
                   /\ req'[r].resp.data =
                         Lookup(article_cache, get_cache_key(req'[r].link)).data
                   /\ req'[r].resp.data.link = req'[r].link
                   /\ bg' = bg
                   /\ article_cache' = article_cache]_vars

\* two calls for one link: the first ran the pipeline, the second was served the
\* same record from the cache, and nothing else ran
C6_Witness ==
    /\ req[1].pc = "done" /\ req[1].cache /\ ~req[1].resp.cached
    /\ req[2].pc = "done" /\ req[2].cache /\ req[2].resp.cached
    /\ req[1].link = req[2].link
    /\ req[1].resp.data = req[2].resp.data
    /\ bg = <<>>

\* job i ends in failure in this step
JobFails(i) == i \in DOMAIN bg /\ bg[i].pc \in InFlight /\ bg'[i].pc = "failed"

\* C7: a refresh job that fails leaves every cache item as it was and changes no
\* request's response
C7_FailedRefreshLeavesCache ==
    [][\A i \in 1..MaxJobs :
          JobFails(i) => (article_cache' = article_cache /\ req' = req)]_vars

\* a failed refresh job whose stale item is still stored
C7_Witness ==
    \E i \in DOMAIN bg :
        /\ bg[i].pc = "failed"
        /\ HasKey(article_cache, bg[i].cache_key)
        /\ now - Lookup(article_cache, bg[i].cache_key).timestamp > TTL

\* C8: a request whose synchronous path fails ends with an error response and
\* leaves the cache as it was
C8_FailedRequestLeavesCache ==
    [][\A r \in Reqs :
          (req[r].pc \in InFlight /\ req'[r].pc = "failed")
             => /\ article_cache' = article_cache
                /\ req'[r].resp.status \in {422, 500}
                /\ bg' = bg]_vars

\* a failed request beside a cache that holds an item
C8_Witness ==
    \E r \in Reqs : req[r].pc = "failed" /\ Len(article_cache) > 0

\* C9: a request with the cache flag cleared starts a pipeline run whatever the
\* cache holds, schedules no refresh, and on completion returns the record of its
\* own run with cached = FALSE and leaves that record under its key, in place of
\* any item stored there before
C9_NoCacheFlagForcesMiss ==
    [][\A r \in Reqs :
          /\ (ArriveStep(r) /\ ~req'[r].cache)
                => /\ req'[r].pc = "fetching"
                   /\ bg' = bg
                   /\ article_cache' = article_cache
          /\ (MissDone(r) /\ ~req[r].cache)
                => /\ req'[r].resp.status = 200
                   /\ ~req'[r].resp.cached
                   /\ req'[r].resp.data.link = req[r].link
                   /\ req'[r].resp.data.processing_time = now - req[r].start_time
                   /\ bg' = bg
                   /\ HasKey(article_cache, Key(r)) => HasKey(article_cache', Key(r))
                   /\ HasKey(article_cache', Key(r)) =>
                         Lookup(article_cache', Key(r)) = OwnItem(r)]_vars

\* a request with the flag cleared that found its key stored by the earlier
\* request and replaced the item
C9_Witness ==
    /\ req[1].pc = "done" /\ ~req[1].resp.cached
    /\ req[2].pc = "done" /\ ~req[2].cache /\ ~req[2].resp.cached
    /\ req[1].link = req[2].link
    /\ req[1].resp.data # req[2].resp.data
    /\ HasKey(article_cache, Key(2))
    /\ Lookup(article_cache, Key(2)).data = req[2].resp.data

\* C10: a request that misses starts its own pipeline run even while another
\* request for the same key is in flight, and a request that finishes the miss
\* path when the key is already stored replaces the item: the last put wins
C10_LastPutWins ==
    [][\A r \in Reqs :
          /\ (ArriveStep(r) /\ ~HasKey(article_cache, get_cache_key(req'[r].link)))
                => req'[r].pc = "fetching"
          /\ (MissDone(r) /\ HasKey(article_cache, Key(r)))
                => Lookup(article_cache', Key(r)) = OwnItem(r)]_vars

\* both requests asked for the cache, both missed the same key while no item was
\* stored, both ran the pipeline and wrote; the item left is that of one of them
C10_Witness ==
    /\ req[1].pc = "done" /\ req[1].cache /\ ~req[1].resp.cached
    /\ req[2].pc = "done" /\ req[2].cache /\ ~req[2].resp.cached
    /\ req[1].link = req[2].link
    /\ req[1].resp.data # req[2].resp.data
    /\ bg = <<>>
    /\ Len(article_cache) = 1
    /\ article_cache[1].key = Key(1)
    /\ article_cache[1].data \in {req[1].resp.data, req[2].resp.data}

\* C11: the step that leaves the gather (the record is assembled, or its assembly
\* fails) is taken only when none of the seven tasks is still running, however
\* many of them raised or returned before
C11_AssembledAfterAllTasks ==
    [][\A r \in Reqs :
          (req[r].pc = "analyzing" /\ req'[r].pc # "analyzing")
             => /\ \A a \in Analyzers : req[r].results[a] \in {"value", "exception"}
                /\ req'[r].pc = "done"
                      => req'[r].resp.data =
                            ArticleResponse(req[r].doc, Raised(req[r].results),
                                            now - req[r].start_time)]_vars

\* a record assembled from a run in which some tasks raised and others returned
C11_Witness ==
    \E r \in Reqs :
        /\ req[r].pc = "done"
        /\ ~req[r].resp.cached
        /\ req[r].results["entities"] = "exception"
        /\ req[r].results["keywords"] = "value"
        /\ \A a \in Analyzers : req[r].results[a] # "none"
        /\ req[r].resp.data.entities = <<>>
        /\ req[r].resp.data.keywords # <<>>

\* job i stores the record of its run in this step
JobDone(i) == i \in DOMAIN bg /\ bg[i].pc = "analyzing" /\ bg'[i].pc = "done"

\* C12: right after a put of (key, record, time.time()), by a request or by a
\* refresh job, the cache holds under that key an item with that record and that
\* timestamp
C12_GetAfterPut ==
    [][/\ \A r \in Reqs :
             MissDone(r) => /\ HasKey(article_cache', Key(r))
                            /\ Lookup(article_cache', Key(r)) = OwnItem(r)
       /\ \A i \in 1..MaxJobs :
             JobDone(i) => /\ HasKey(article_cache', bg[i].cache_key)
                           /\ Lookup(article_cache', bg[i].cache_key).timestamp = now]_vars

\* the records a pipeline run of job i can return in this step
JobRecords(i) ==
    {ArticleResponse(bg[i].doc, failed, now - bg[i].start_time) : failed \in FailChoices}

\* C13: when the pipeline run of a refresh job returns its record, the job in the
\* same step replaces the item stored under its key by that record, stamped with
\* the time of the write, so that the item is fresh at every reading of the clock
\* up to one TTL after the write; the other items stay where and as they were; and
\* whether or not its key is still stored, the job writes no item under another key
C13_RefreshOverwritesOwnKey ==
    [][\A i \in 1..MaxJobs :
          JobDone(i)
             => LET key == bg[i].cache_key
                IN /\ key = get_cache_key(bg[i].url)
                   /\ \A j \in DOMAIN article_cache' :
                         article_cache'[j].key # key
                            => \E k \in DOMAIN article_cache :
                                  article_cache[k] = article_cache'[j]
                   /\ HasKey(article_cache, key)
                         => /\ HasKey(article_cache', key)
                            /\ Lookup(article_cache', key).data \in JobRecords(i)
                            /\ Lookup(article_cache', key).data.link = bg[i].url
                            /\ Lookup(article_cache', key).timestamp = now
                            /\ \A t \in Times :
                                  t - now <= TTL => ~IsStale(Lookup(article_cache', key), t)
                            /\ Len(article_cache') = Len(article_cache)
                            /\ \A j \in DOMAIN article_cache :
                                  article_cache[j].key # key
                                     => article_cache'[j] = article_cache[j]
                   /\ req' = req]_vars

\* a refresh job has rewritten the stale item a request was served: the item now
\* carries the time of the refresh and is fresh
C13_Witness ==
    \E i \in DOMAIN bg, r \in Reqs :
        /\ bg[i].pc = "done"
        /\ req[r].pc = "done" /\ req[r].resp.cached
        /\ Key(r) = bg[i].cache_key
        /\ HasKey(article_cache, Key(r))
        /\ Lookup(article_cache, Key(r)).timestamp = TTL + 1
        /\ Lookup(article_cache, Key(r)).data # req[r].resp.data
        /\ now = TTL + 1

\* C14: a request that finds its key stored with the cache flag set ends in that
\* step, whether the item is fresh or stale: it never enters the fetch or the
\* analysis, and the cache is left as it was, every item with its key, record and
\* timestamp; once answered from the cache the request does nothing more
C14_HitIsPureRead ==
    [][\A r \in Reqs :
          /\ HitStep(r)
                => /\ req'[r].pc = "done"
                   /\ req'[r].resp.cached
                   /\ req'[r].doc = NoDoc
                   /\ req'[r].results = NoResults
                   /\ article_cache' = article_cache
                   /\ now' = now
          /\ (req[r].pc = "done" /\ req[r].resp.cached) => req'[r] = req[r]]_vars

\* an item stored at time 0 has been read exactly one TTL later, and read again
\* by no one since: it still carries timestamp 0
C14_Witness ==
    /\ req[1].pc = "done" /\ ~req[1].resp.cached
    /\ req[2].pc = "done" /\ req[2].resp.cached
    /\ req[2].resp.data = req[1].resp.data
    /\ now = TTL
    /\ Len(article_cache) = 1
    /\ article_cache[1] = [key |-> Key(2), data |-> req[2].resp.data, timestamp |-> 0]

\* the keys stored in a cache
Keys(cache) == {cache[j].key : j \in DOMAIN cache}

\* a put of key k is made in this step, by a request or by a refresh job
PutStep(k) ==
    \/ \E r \in Reqs : MissDone(r) /\ Key(r) = k
    \/ \E i \in 1..MaxJobs : JobDone(i) /\ bg[i].cache_key = k

\* C15: in every step other than the shutdown, a key leaves the cache only in a
\* put of another key that finds the cache full, and a stored item changes only
\* in a put of its own key; in particular the passing of time removes and alters
\* nothing; and a refresh job is scheduled only by the request that reads the
\* job's key with the cache flag set and finds it stale
C15_OnlyEvictionRemoves ==
    [][\/ Shutdown
       \/ /\ \A k \in Keys(article_cache) \ Keys(article_cache') :
                /\ Len(article_cache) = CACHE_SIZE
                /\ \E k2 \in Keys(article_cache') \ Keys(article_cache) : PutStep(k2)
          /\ \A k \in Keys(article_cache) \cap Keys(article_cache') :
                Lookup(article_cache', k) # Lookup(article_cache, k) => PutStep(k)
          /\ now' # now => (article_cache' = article_cache /\ bg' = bg)
          /\ Len(bg') # Len(bg)
                => /\ Len(bg') = Len(bg) + 1
                   /\ SubSeq(bg', 1, Len(bg)) = bg
                   /\ \E r \in Reqs :
                         /\ HitStep(r)
                         /\ bg'[Len(bg')].cache_key = get_cache_key(req'[r].link)
                         /\ IsStale(Lookup(article_cache, get_cache_key(req'[r].link)), now)]_vars

\* an item that became stale after its request was answered sits in the cache
\* unaltered, with no refresh scheduled, because no request has read it since
C15_Witness ==
    /\ req[1].pc = "done" /\ ~req[1].resp.cached
    /\ req[2].pc = "idle"
    /\ bg = <<>>
    /\ article_cache = << [key |-> Key(1), data |-> req[1].resp.data, timestamp |-> 0] >>
    /\ IsStale(article_cache[1], now)

\* C16: for every stored item the staleness test is strict (at timestamp + TTL
\* the item is fresh, one second later it is stale) and monotonic in the time of
\* the read (stale at t implies stale at every later t2); and the handler applies
\* this test: a hit schedules a refresh exactly when now - timestamp > TTL
C16_StalenessStrictMonotonic ==
    [][\A j \in DOMAIN article_cache :
          LET item == article_cache[j]
          IN /\ ~IsStale(item, item.timestamp + TTL)
             /\ IsStale(item, item.timestamp + TTL + 1)
             /\ \A t, t2 \in Times : (IsStale(item, t) /\ t2 > t) => IsStale(item, t2)
             /\ \A r \in Reqs :
                   (HitStep(r) /\ item.key = get_cache_key(req'[r].link))
                      => (Len(bg') = Len(bg) + 1 <=> now - item.timestamp > TTL)
                         /\ (Len(bg') = Len(bg) <=> now - item.timestamp <= TTL)]_vars

\* an item stored at time 0 was read one TTL later, when it was still fresh, and
\* is stale now, two seconds after that read
C16_Witness ==
    /\ article_cache # <<>>
    /\ article_cache[1].timestamp = 0
    /\ req[2].pc = "done" /\ req[2].resp.cached
    /\ Key(2) = article_cache[1].key
    /\ bg = <<>>
    /\ now = TTL + 2
    /\ IsStale(article_cache[1], TTL + 1)
    /\ IsStale(article_cache[1], now)

\* the lowercase form of a text over the letters the model uses
LowerCase(text) ==
    [i \in DOMAIN text |->
        CASE text[i] = "A" -> "a"
          [] text[i] = "L" -> "l"
          [] OTHER -> text[i]]

\* entity i of ents passes the type and length policy
Passes(ents, i, excludeTypes, minLength) ==
    ents[i].type \notin excludeTypes /\ Len(ents[i].text) >= minLength

\* the positions the reference result keeps: those that pass the policy and are
\* not preceded by a passing entity of the same type and lowercased text
KeptPositions(ents, excludeTypes, minLength) ==
    {i \in DOMAIN ents :
        /\ Passes(ents, i, excludeTypes, minLength)
        /\ ~\E j \in 1..(i - 1) :
              /\ Passes(ents, j, excludeTypes, minLength)
              /\ ents[j].type = ents[i].type
              /\ LowerCase(ents[j].text) = LowerCase(ents[i].text)}

\* the reference result: the entities at the kept positions, in input order
Reference(ents, excludeTypes, minLength) ==
    LET kept == KeptPositions(ents, excludeTypes, minLength)
        nth(k) == CHOOSE i \in kept : Cardinality({j \in kept : j <= i}) = k
    IN [k \in 1..Cardinality(kept) |-> ents[nth(k)]]

ExampleEntities ==
    << [type |-> "DATE", text |-> <<"2", "0", "2", "3">>],
       [type |-> "PERSON", text |-> <<"A", "l">>],
       [type |-> "PERSON", text |-> <<"A">>] >>

ExampleOptions == [exclude_types |-> {"DATE"}, min_length |-> 2]

\* C17: whatever the entities and the options, filter_entities returns the
\* reference result; on the example of the specification it returns (PERSON, Al)
C17_FilterMatchesReference ==
    \A r \in Reqs :
        (req[r].pc = "done" /\ "ents" \in DOMAIN req[r])
           => /\ req[r].resp.data =
                    Reference(req[r].ents, req[r].filter_options.exclude_types,
                              req[r].filter_options.min_length)
              /\ (req[r].ents = ExampleEntities /\ req[r].filter_options = ExampleOptions)
                    => req[r].resp.data = << [type |-> "PERSON", text |-> <<"A", "l">>] >>

\* a call in which the policy dropped an entity, the deduplication dropped one
\* that differs from an earlier one in case only, and one entity was kept
C17_Witness ==
    /\ req[1].pc = "done"
    /\ "ents" \in DOMAIN req[1]
    /\ req[1].filter_options = ExampleOptions
    /\ req[1].ents = << [type |-> "DATE", text |-> <<"2", "0", "2", "3">>],
                        [type |-> "PERSON", text |-> <<"A", "l">>],
                        [type |-> "PERSON", text |-> <<"a", "l">>] >>
    /\ req[1].resp.data = << [type |-> "PERSON", text |-> <<"A", "l">>] >>

\* the instant a listed article is dated: its publish date when it has one (for
\* a date with a UTC offset, the wall-clock reading less the offset), and the
\* time of the cache write otherwise
DatedAt(listed) ==
    LET d == listed.article.date
    IN CASE d.kind = "aware" -> d.wall - d.utcoffset
         [] d.kind = "naive" -> d.wall
         [] OTHER -> listed.cached_at.wall

AllListed == {CachedArticleResponse(article_cache[j]) : j \in DOMAIN article_cache}

\* C18: the listing returns as total the number of cached items whatever limit
\* and offset are, and the items at positions offset+1 .. offset+limit of the
\* cache ordered by descending date: the k-th item returned has at most
\* offset+k-1 cached items dated later than it and at least offset+k cached items
\* dated no earlier
C18_ListCached ==
    \A r \in Reqs :
        (req[r].pc = "done" /\ "limit" \in DOMAIN req[r])
           => LET resp == req[r].resp
                  rest == Len(article_cache) - req[r].offset
              IN /\ resp.total_articles = Len(article_cache)
                 /\ Len(resp.articles) =
                       IF rest <= 0 THEN 0 ELSE IF rest < req[r].limit THEN rest
                       ELSE req[r].limit
                 /\ \A k \in DOMAIN resp.articles :
                       /\ resp.articles[k] \in AllListed
                       /\ Cardinality({e \in AllListed :
                              DatedAt(e) > DatedAt(resp.articles[k])}) <= req[r].offset + k - 1
                       /\ Cardinality({e \in AllListed :
                              DatedAt(e) >= DatedAt(resp.articles[k])}) >= req[r].offset + k

\* C19: a run whose fetched text has fewer than 10 characters (none included)
\* and whose record is built returns an empty keyword list without the extractor
\* having been invoked, the other fields being those the other tasks produced; a
\* run on a text of 10 characters or more invokes the extractor
C19_ShortTextNoKeywords ==
    [][\A r \in Reqs :
          (req[r].pc = "analyzing" /\ req'[r].pc = "done")
             => IF TextLen(req[r].doc) < 10
                THEN /\ req'[r].resp.status = 200
                     /\ req'[r].resp.data.keywords = <<>>
                     /\ ~req'[r].extractor_called
                     /\ req'[r].resp.data =
                           ArticleResponse(req[r].doc,
                                           Raised(req[r].results) \cup {"keywords"},
                                           now - req[r].start_time)
                ELSE /\ req'[r].extractor_called
                     /\ req[r].results["keywords"] = "value"
                           => req'[r].resp.data.keywords # <<>>]_vars

\* a run on the text of 5 characters ended with a record: every task returned,
\* the keyword list is empty and the extractor was not invoked
C19_Witness ==
    \E r \in Reqs :
        /\ req[r].pc = "done"
        /\ req[r].link = 2
        /\ ~req[r].resp.cached
        /\ \A a \in Analyzers : req[r].results[a] = "value"
        /\ req[r].resp.data.keywords = <<>>
        /\ req[r].resp.data.entities # <<>>
        /\ ~req[r].extractor_called

\* C20: every record a run produces, returned or stored, carries a
\* processing_time that is not negative, at every reading of the clock
C20_ProcessingTimeNonNegative ==
    /\ \A r \in Reqs :
          (req[r].pc = "done" /\ req[r].resp.status = 200)
             => req[r].resp.data.processing_time >= 0
    /\ \A j \in DOMAIN article_cache : article_cache[j].data.processing_time >= 0

\* the dict after the assignment of a cache write and before manage_cache_size
Upserted(before, written) ==
    IF \E i \in DOMAIN before : before[i].key = written.key
    THEN [i \in DOMAIN before |-> IF before[i].key = written.key THEN written
                                   ELSE before[i]]
    ELSE before \o <<written>>

\* the items of a dict as a set
Items(cache) == {cache[i] : i \in DOMAIN cache}

\* the number of items evicted and the choice of the oldest: what is left are
\* min(size, CACHE_SIZE) items of the upserted dict, every item left being at
\* least as recent as every item evicted
EvictsOldest(upserted, after) ==
    /\ Items(after) \subseteq Items(upserted)
    /\ Len(after) = Len(upserted) -
                        (IF Len(upserted) > CACHE_SIZE THEN Len(upserted) - CACHE_SIZE ELSE 0)
    /\ Cardinality(Items(after)) = Len(after)
    /\ \A kept \in Items(after), gone \in Items(upserted) \ Items(after) :
          gone.timestamp <= kept.timestamp

C22_RequestOptionsHonoured ==
    \A r \in Reqs :
        (req[r].pc = "done" /\ req[r].resp.status = 200)
           => req[r].resp.data.entities =
                 filter_entities(DocEnts([link |-> req[r].resp.data.link,
                                          ver |-> req[r].resp.data.ver]),
                                 req[r].filter_options)

\* request r reads in this step, with the cache flag set, a stored item that is
\* stale
StaleHitStep(r) ==
    /\ HitStep(r)
    /\ IsStale(Lookup(article_cache, get_cache_key(req'[r].link)), now)

\* the number of refresh jobs scheduled so far for key k
JobsFor(jobs, k) == Cardinality({i \in DOMAIN jobs : jobs[i].cache_key = k})

\* the steps of the pipeline run of a refresh job
PipelineSteps ==
    {<<"pending", "fetching">>, <<"fetching", "analyzing">>, <<"fetching", "failed">>,
     <<"analyzing", "done">>, <<"analyzing", "failed">>}

\* C23: refreshes are not deduplicated per key: every request that reads a stale
\* item schedules its own job for the key it read, whatever jobs for that key are
\* pending or running, and nothing else schedules a job, so that the jobs
\* scheduled for a key are as many as the stale reads of it; a scheduled job is
\* never dropped or cut short: it moves only along the steps of the pipeline and
\* ends it with its own write of the key, also when another job has rewritten the
\* item before
C23_NoDedup ==
    [][/\ \A r \in Reqs :
             StaleHitStep(r)
                => bg' = Append(bg, Job(req'[r].link, get_cache_key(req'[r].link)))
       /\ \A u \in Links :
             JobsFor(bg', get_cache_key(u)) - JobsFor(bg, get_cache_key(u))
                = Cardinality({r \in Reqs : /\ StaleHitStep(r)
                                            /\ get_cache_key(req'[r].link) = get_cache_key(u)})
       /\ \A i \in DOMAIN bg :
             /\ i \in DOMAIN bg'
             /\ bg'[i].cache_key = bg[i].cache_key
             /\ bg'[i].pc # bg[i].pc => <<bg[i].pc, bg'[i].pc>> \in PipelineSteps
             /\ JobDone(i)
                   => \E rec \in JobRecords(i) :
                         article_cache' = Store(article_cache, bg[i].cache_key, rec, now)]_vars

\* two requests have read the same stale item, two jobs were scheduled for its
\* key, and both have run the pipeline to its write
C23_Witness ==
    /\ \A r \in Reqs : req[r].pc = "done" /\ req[r].resp.cached /\ req[r].link = 1
    /\ Len(bg) = 2
    /\ \A i \in DOMAIN bg : bg[i].cache_key = get_cache_key(1) /\ bg[i].pc = "done"
    /\ HasKey(article_cache, get_cache_key(1))
    /\ Lookup(article_cache, get_cache_key(1)).timestamp > 0

\* C24: a refresh job that ends its pipeline run when its key is no longer stored
\* (puts of other keys have evicted it since the job was scheduled) stores the key
\* anew with the time of the write, and the cache, back within CACHE_SIZE, has
\* lost only items whose timestamp no kept item undercuts, the item just written
\* never among them
C24_RefreshReinsertsEvictedKey ==
    [][\A i \in 1..MaxJobs :
          (JobDone(i) /\ ~HasKey(article_cache, bg[i].cache_key))
             => /\ Len(article_cache') <= CACHE_SIZE
                /\ HasKey(article_cache', bg[i].cache_key)
                /\ Lookup(article_cache', bg[i].cache_key).timestamp = now
                /\ Lookup(article_cache', bg[i].cache_key).data \in JobRecords(i)
                /\ \A j \in DOMAIN article_cache :
                      ~HasKey(article_cache', article_cache[j].key)
                         => \A k \in DOMAIN article_cache' :
                               article_cache[j].timestamp <= article_cache'[k].timestamp]_vars

====
